---- MODULE Spec2Model ----
(***************************************************************************)
(* A model of bel_enrichment: the statement-to-row pipeline of             *)
(* indra_utils.py (evidence filter, row projection, print_statements) and  *)
(* the curation-outcome classifier of sheets.py.                           *)
(*                                                                         *)
(* Strings are TLA+ strings.  Python's None is the value None below.  A    *)
(* BEL term is a tuple of tokens, so that "substring in bel_part" is a     *)
(* membership test on the tokens.  Beliefs are integers in thousandths.    *)
(***************************************************************************)
EXTENDS Integers, Sequences, FiniteSets, TLC

VARIABLES
    pc,          \* position of the handler that is running
    args,        \* arguments of print_statements, each drawn when first read
    statements,  \* the local list `statements` of print_statements
    projected,   \* the rows yielded by get_rows_from_statements
    perm,        \* perm[i]: index in `projected` of the i-th row of sorted()
    rows,        \* the local list `rows` of print_statements
    file,        \* the lines written to the destination
    log,         \* the messages logged at warning level
    run,         \* 1 on the first call, 2 on the call on the pruned statements
    rows1,       \* the rows of the first call, kept for the second
    evidence,    \* the evidence record handed to _keep_evidence
    keep,        \* the truth value of what _keep_evidence returned
    sheet,       \* the curation sheet at `path`: readable or not, its columns
    edge_type_filter,  \* generate_curation_report's argument
    curation_results,  \* the counters of generate_curation_report, by label
    line,        \* the number of sheet rows iterated so far
    sheet_row,   \* the sheet row iterated last
    skipped,     \* the number of sheet rows left by `continue`
    summary_excel_rows,  \* generate_curation_summary: unit -> counters of its report
    error_excel_rows,    \* generate_curation_summary: unit -> counters of its error types
    summary_csv,  \* curation_summary.csv: no table, or the table written
    error_csv,    \* error_types.csv: no table, or the table written
    path,         \* the path iterated last: its unit (parent folder) and its sheet
    n_paths,      \* the number of paths iterated so far
    disk,         \* the repository directory: the kinds of sheets and rows it may hold
    use_cached,   \* get_graph's argument
    bel_parser,   \* the control parser's context: citation, evidence, annotations
    sheets_graph, \* the graph get_graph builds: path, edges, warnings
    last_call,    \* no call, or the arguments and context of the last parseString call
    df,           \* the frame of the sheet being iterated by get_graph
    df_row,       \* the row handed to process_row last
    line_number,  \* the line number handed to process_row last
    n_sheets,     \* the number of paths get_graph has iterated in this call
    n_lines,      \* the number of rows get_graph has iterated in this call
    n_read,       \* the number of pd.read_excel calls of get_graph in this call
    n_calls,      \* the number of get_graph calls made
    cache_pickle, \* the file at _cache_pickle_path: absent, or the graph pickled
    cache_json,   \* the file at _cache_json_path: absent, or the graph exported
    returned,     \* nothing, or the graph the last get_graph call returned
    gene_symbols, \* export_separate: the list get_gene_symbols returned
    gene_index,   \* the position of `for gene_symbol in gene_symbols`, from 1
    directory,    \* the files under the export directory: path -> lines written
    csv_file,     \* nothing, or the path of the file export_separate holds open
    n_exports     \* the number of export_separate calls made

reportVars == <<sheet, edge_type_filter, curation_results, line, sheet_row, skipped>>

summaryVars == <<summary_excel_rows, error_excel_rows, summary_csv, error_csv, path, n_paths>>

graphVars == <<disk, use_cached, bel_parser, sheets_graph, last_call, df, df_row, line_number,
               n_sheets, n_lines, n_read, n_calls, cache_pickle, cache_json, returned>>

exportVars == <<gene_symbols, gene_index, directory, csv_file, n_exports>>

pipelineVars == <<args, statements, projected, perm, rows, file, run, rows1, evidence, keep>>

vars == <<pc, args, statements, projected, perm, rows, file, log, run, rows1,
          evidence, keep, reportVars, summaryVars, graphVars, exportVars>>

None == "<None>"

Min(a, b) == IF a < b THEN a ELSE b
Max(a, b) == IF a < b THEN b ELSE a

\* Python truthiness of a string-or-None value
Truthy(x) == x # None /\ x # ""

-----------------------------------------------------------------------------
(* Module-level constants of indra_utils.py *)

NO_EVIDENCE_TEXT == "No evidence text."
MODIFIED_ASSERTION == "Modified assertion"
TEXT_BLACKLIST == {NO_EVIDENCE_TEXT, MODIFIED_ASSERTION}
SOURCE_BLACKLIST == {"bel", "signor"}
SUBSTRING_BLACKLIST == {"CHEBI", "PUBCHEM"}
UNQUALIFIED_EDGES == {"hasVariant", "partOf", "isA"}

start_header == <<"PMID", "Evidence", "Subject", "Predicate", "Object">>
end_header == <<"UUID", "Statement Hash", "Evidence Hash", "API", "Belief">>

sort_attrs_pmid_evidence == <<"pmid", "evidence">>

\* the default of print_statements' sort_attrs
sort_attrs == <<"uuid", "pmid">>

-----------------------------------------------------------------------------
(* The evidence filter *)

_keep_evidence_no_source_blacklist(e) ==
    /\ Truthy(e.pmid)
    /\ Truthy(e.text)
    /\ e.text \notin TEXT_BLACKLIST
    /\ Truthy(e.source_api)

\* evidence.pmid and evidence.text and text not in TEXT_BLACKLIST and
\* evidence.source_api and source_api not in SOURCE_BLACKLIST, as a truth value
_keep_evidence(e) ==
    IF ~Truthy(e.pmid) THEN FALSE
    ELSE IF ~Truthy(e.text) THEN FALSE
    ELSE IF ~(e.text \notin TEXT_BLACKLIST) THEN FALSE
    ELSE IF ~Truthy(e.source_api) THEN FALSE
    ELSE e.source_api \notin SOURCE_BLACKLIST

-----------------------------------------------------------------------------
(* The inputs: evidence records, statement contents, statements *)

MaxStmts == 2
MaxLimit == 1

PMIDS == {None, "", "100", "200"}
TEXTS == {None, "", NO_EVIDENCE_TEXT, MODIFIED_ASSERTION, "binds", "cleaves"}
SOURCES == {None, "", "bel", "signor", "reach", "sparser"}

\* every evidence record _keep_evidence is asked about
Evidences == [pmid : PMIDS, text : TEXTS, source_api : SOURCES]

eA == [pmid |-> "200", text |-> "binds", source_api |-> "reach"]
eB == [pmid |-> "100", text |-> "cleaves", source_api |-> "sparser"]
eNoText == [pmid |-> "100", text |-> NO_EVIDENCE_TEXT, source_api |-> "reach"]
eBel == [pmid |-> "200", text |-> "binds", source_api |-> "bel"]

\* the evidence lists the retrieved statements carry
EvidenceLists == {<<eA>>, <<eB, eA>>, <<eNoText, eBel>>}

\* the orders of Python's string comparison on the values that are compared
UuidOrder == <<"u1", "u2", "u3", "u4">>
PmidOrder == <<"100", "200">>
TextOrder == <<"binds", "cleaves">>

UUIDS == {UuidOrder[i] : i \in 1..Min(MaxStmts, Len(UuidOrder))}
BELIEFS == {499, 500}
MinimumBeliefs == {{}, {500}}
MATCH_KEYS == {"k1", "k2", "k3"}

AKT1 == <<"p", "HGNC", "AKT1">>
TP53 == <<"p", "HGNC", "TP53">>
ATP == <<"a", "CHEBI", "ATP">>

\* What PybelAssembler makes of a statement of the given content: whether
\* make_model raises AttributeError, and the edges it renders for each
\* evidence.  The content also says whether the agents are grounded.
Content(mk) ==
    CASE mk = "k1" ->
            [grounded |-> TRUE, raises |-> FALSE,
             edges |-> << [relation |-> "increases", subject |-> AKT1, object |-> TP53],
                          [relation |-> "hasVariant", subject |-> AKT1, object |-> AKT1],
                          [relation |-> "increases", subject |-> TP53, object |-> AKT1] >>]
      [] mk = "k2" ->
            [grounded |-> FALSE, raises |-> FALSE,
             edges |-> << [relation |-> "decreases", subject |-> ATP, object |-> TP53],
                          [relation |-> "decreases", subject |-> AKT1, object |-> TP53] >>]
      [] OTHER ->
            [grounded |-> TRUE, raises |-> TRUE,
             edges |-> << [relation |-> "increases", subject |-> AKT1, object |-> TP53] >>]

Statements == [uuid : UUIDS, mk : MATCH_KEYS, belief : BELIEFS, evidence : EvidenceLists]

RECURSIVE SeqsUpTo(_, _)
SeqsUpTo(S, n) ==
    IF n = 0 THEN {<<>>}
    ELSE LET shorter == SeqsUpTo(S, n - 1)
         IN  shorter \cup {Append(q, x) : q \in {r \in shorter : Len(r) = n - 1}, x \in S}

\* the statement lists the retrieval hands to print_statements: distinct uuids
StatementLists ==
    {q \in SeqsUpTo(Statements, MaxStmts) :
        \A i, j \in 1..Len(q) : i # j => q[i].uuid # q[j].uuid}

-----------------------------------------------------------------------------
(* The collaborators of print_statements (indra.tools.assemble_corpus) *)

\* run_preassembly: statements of the same content are merged into the first
\* of them, which takes the evidence of all of them in order
run_preassembly(stmts) ==
    LET first(i) == \A j \in 1..(i - 1) : stmts[j].mk # stmts[i].mk
        RECURSIVE gather(_, _)
        gather(mk, i) ==
            IF i > Len(stmts) THEN <<>>
            ELSE (IF stmts[i].mk = mk THEN stmts[i].evidence ELSE <<>>) \o gather(mk, i + 1)
        RECURSIVE merged(_)
        merged(i) ==
            IF i > Len(stmts) THEN <<>>
            ELSE (IF first(i)
                  THEN << [stmts[i] EXCEPT !.evidence = gather(stmts[i].mk, i)] >>
                  ELSE <<>>) \o merged(i + 1)
    IN  merged(1)

\* filter_grounded_only: drops the statements with an ungrounded agent
filter_grounded_only(stmts) ==
    LET grounded(st) == Content(st.mk).grounded
    IN  SelectSeq(stmts, grounded)

\* filter_belief: drops the statements whose belief is below the cutoff
filter_belief(stmts, belief_cutoff) ==
    LET believed(st) == ~(st.belief < belief_cutoff)
    IN  SelectSeq(stmts, believed)

-----------------------------------------------------------------------------
(* Projection of one statement to rows *)

SourceHash(e) == <<e.pmid, e.text, e.source_api>>

\* The graph PybelAssembler makes of one statement, as graph.edges(data=True)
\* lists it: node pair by node pair, one qualified edge for each evidence of
\* the statement (without citation when there is no evidence or no pmid), and
\* one edge without data for an unqualified relation.
get_graph_from_statement(st) ==
    LET templates == Content(st.mk).edges
        bare(t) == [relation |-> t.relation, subject |-> t.subject, object |-> t.object,
                    citation |-> None, evidence |-> None,
                    uuid |-> st.uuid, stmt_hash |-> st.mk,
                    source_hash |-> <<>>, source_api |-> None]
        qualified(t, e) == [bare(t) EXCEPT
                    !.citation = IF Truthy(e.pmid) THEN e.pmid ELSE None,
                    !.evidence = e.text,
                    !.source_hash = SourceHash(e),
                    !.source_api = e.source_api]
        of(t) == IF t.relation \in UNQUALIFIED_EDGES \/ Len(st.evidence) = 0
                 THEN << bare(t) >>
                 ELSE [i \in 1..Len(st.evidence) |-> qualified(t, st.evidence[i])]
        RECURSIVE all(_)
        all(k) == IF k > Len(templates) THEN <<>> ELSE of(templates[k]) \o all(k + 1)
    IN  IF Content(st.mk).raises THEN <<>> ELSE all(1)

\* edge_to_tuple(u, v, data, use_identifiers=True)
edge_to_tuple(data) == <<data.subject, <<data.relation>>, data.object>>

Contains_never(bel_part, substring) == FALSE

\* substring in bel_part
Contains(bel_part, substring) == \E i \in 1..Len(bel_part) : bel_part[i] = substring

\* round(statement.belief, 2): thousandths to hundredths (no value of BELIEFS
\* ends in 5, where the binary value of the float decides)
Round2(belief) == (belief + 5) \div 10

_get_rows_from_statement(st) ==
    LET graph == get_graph_from_statement(st)
        t(data) == edge_to_tuple(data)
        passed_over(data) ==
            \/ data.relation \in UNQUALIFIED_EDGES
            \/ \E k \in 1..3, substring \in SUBSTRING_BLACKLIST :
                    Contains(t(data)[k], substring)
            \/ data.citation = None
        row(data) == [uuid |-> data.uuid,
                      statement_hash |-> data.stmt_hash,
                      evidence_hash |-> data.source_hash,
                      belief |-> Round2(st.belief),
                      pmid |-> data.citation,
                      evidence |-> data.evidence,
                      api |-> data.source_api,
                      bel_subject |-> t(data)[1],
                      bel_relation |-> t(data)[2],
                      bel_object |-> t(data)[3]]
        RECURSIVE rowsFrom(_)
        rowsFrom(k) ==
            IF k > Len(graph) THEN <<>>
            ELSE (IF passed_over(graph[k]) THEN <<>> ELSE << row(graph[k]) >>) \o rowsFrom(k + 1)
    IN  rowsFrom(1)

\* keep_only_pmids is [kind : {"none", "str", "set"}, pmids : a set of pmids];
\* a str is its one pmid
NoPmids == [kind |-> "none", pmids |-> {}]

\* del statement.evidence[1:]
_del_evidence_to_1(ev) == SubSeq(ev, 2, Len(ev))
_del_evidence_from_1(ev) == SubSeq(ev, 1, Min(1, Len(ev)))

\* The statement as get_rows_from_statement leaves it, and the rows it yields
get_rows_from_statement(st, allow_duplicates, keep_only_pmids) ==
    LET ev1 == SelectSeq(st.evidence, _keep_evidence)
        only == IF keep_only_pmids.kind = "str"
                THEN [kind |-> "set", pmids |-> keep_only_pmids.pmids]
                ELSE keep_only_pmids
        inOnly(e) == e.pmid \in only.pmids
        ev2 == IF only.kind # "none" THEN SelectSeq(ev1, inOnly) ELSE ev1
        ev3 == IF ~allow_duplicates THEN _del_evidence_from_1(ev2) ELSE ev2
    IN  IF Len(ev1) = 0
        THEN [statement |-> [st EXCEPT !.evidence = ev1], rows |-> <<>>]
        ELSE LET pruned == [st EXCEPT !.evidence = ev3]
             IN  [statement |-> pruned, rows |-> _get_rows_from_statement(pruned)]

\* The statements as get_rows_from_statements leaves them, and the rows it yields
get_rows_from_statements(stmts, allow_duplicates, keep_only_pmids) ==
    LET each == [i \in 1..Len(stmts) |->
                    get_rows_from_statement(stmts[i], allow_duplicates, keep_only_pmids)]
        RECURSIVE chain(_)
        chain(i) == IF i > Len(stmts) THEN <<>> ELSE each[i].rows \o chain(i + 1)
    IN  [statements |-> [i \in 1..Len(stmts) |-> each[i].statement], rows |-> chain(1)]

-----------------------------------------------------------------------------
(* rows = sorted(rows, key=attrgetter of sort_attrs) *)

Rank(order, s) == CHOOSE i \in 1..Len(order) : order[i] = s

AttrOrder(attr) ==
    CASE attr = "uuid" -> UuidOrder
      [] attr = "pmid" -> PmidOrder
      [] attr = "evidence" -> TextOrder

\* the key attrgetter makes of a row for the attributes attrs, each string as its rank in Python's string order
attrgetter(attrs, row) == [k \in 1..Len(attrs) |-> Rank(AttrOrder(attrs[k]), row[attrs[k]])]

\* a < b on tuples
TupleLess(a, b) ==
    \E k \in 1..Len(a) : a[k] < b[k] /\ \A j \in 1..(k - 1) : a[j] = b[j]

key(row) == attrgetter(sort_attrs, row)

\* The order sorted() puts the rows in, as the list of their indices: each row
\* goes behind the rows placed so far that are not greater (a stable sort)
SortedOrder(rs) ==
    LET RECURSIVE place(_, _, _)
        place(order, i, p) ==
            IF p > Len(order) \/ TupleLess(key(rs[i]), key(rs[order[p]]))
            THEN SubSeq(order, 1, p - 1) \o <<i>> \o SubSeq(order, p, Len(order))
            ELSE place(order, i, p + 1)
        RECURSIVE upTo(_)
        upTo(i) == IF i = 0 THEN <<>> ELSE place(upTo(i - 1), i, 1)
    IN  upTo(Len(rs))

\* rows[limit:]
Slice_from(rs, limit) == SubSeq(rs, Min(limit, Len(rs)) + 1, Len(rs))

\* rows[:limit]
Slice(rs, limit) ==
    IF limit >= 0 THEN SubSeq(rs, 1, Min(limit, Len(rs)))
    ELSE SubSeq(rs, 1, Max(0, Len(rs) + limit))

start_tuple(row) == <<row.pmid, row.evidence, row.bel_subject, row.bel_relation, row.bel_object>>
end_tuple(row) == <<row.uuid, row.statement_hash, row.evidence_hash, row.api, row.belief>>

-----------------------------------------------------------------------------
(* print_statements, stage by stage.  An argument is drawn when the handler *)
(* first reads it and keeps its value from then on.                         *)

Limits == {{}} \cup {{n} : n \in 0..MaxLimit}
KeepOnlyPmids == {NoPmids, [kind |-> "str", pmids |-> {"100"}],
                  [kind |-> "set", pmids |-> {"100"}]}
ExtraColumns == {<<>>, <<"Checked">>}

Arg(name, domain) == IF name \in DOMAIN args THEN {args[name]} ELSE domain
Bind(name, value) == IF name \in DOMAIN args THEN args ELSE args @@ (name :> value)

Idle == <<>>

NaN == "<NaN>"
NoRow == [Evidence |-> None, Predicate |-> None, Checked |-> NaN, Correct |-> NaN,
          Changed |-> NaN]
NoSheet == [read |-> "ok", columns |-> {}]

\* no curation report is being generated
ReportIdle ==
    /\ sheet = NoSheet
    /\ edge_type_filter = None
    /\ curation_results = <<>>
    /\ line = 0
    /\ sheet_row = NoRow
    /\ skipped = 0

NoPath == [unit |-> None, read |-> "ok", columns |-> {}, rows |-> <<>>]

\* no curation summary is being generated
SummaryIdle ==
    /\ summary_excel_rows = <<>>
    /\ error_excel_rows = <<>>
    /\ summary_csv = {}
    /\ error_csv = {}
    /\ path = NoPath
    /\ n_paths = 0

NoFrame == [read |-> "ok", columns |-> {}]
NoDfRow == [Checked |-> NaN, Correct |-> NaN, Changed |-> NaN, CitationReference |-> NaN,
            PMID |-> NaN, Subject |-> "", Predicate |-> "", Object |-> ""]

\* the context of a new BELParser and a new BELGraph
NoContext == [citation |-> {}, evidence |-> <<>>, annotations |-> <<>>]
NoGraph == [path |-> 0, edges |-> <<>>, warnings |-> <<>>]

\* no graph is being built from the sheets
GraphIdle ==
    /\ disk = [frames |-> {}, rows |-> {}]
    /\ use_cached = FALSE
    /\ bel_parser = NoContext
    /\ sheets_graph = NoGraph
    /\ last_call = {}
    /\ df = NoFrame
    /\ df_row = NoDfRow
    /\ line_number = 0
    /\ n_sheets = 0
    /\ n_lines = 0
    /\ n_read = 0
    /\ n_calls = 0
    /\ cache_pickle = {}
    /\ cache_json = {}
    /\ returned = {}

\* export_separate has not been called on the directory
ExportIdle ==
    /\ gene_symbols = <<>>
    /\ gene_index = 0
    /\ directory = <<>>
    /\ csv_file = {}
    /\ n_exports = 0

\* statements = run_preassembly(statements)
Preassemble ==
    /\ pc = "start"
    /\ statements' = run_preassembly(statements)
    /\ pc' = "preassembled"
    /\ UNCHANGED <<args, projected, perm, rows, file, log, run, rows1, evidence, keep, reportVars, summaryVars, graphVars, exportVars>>

\* if not allow_ungrounded: statements = filter_grounded_only(statements)
GroundedFilter ==
    /\ pc = "preassembled"
    /\ \E allow_ungrounded \in Arg("allow_ungrounded", BOOLEAN) :
        /\ args' = Bind("allow_ungrounded", allow_ungrounded)
        /\ statements' = IF ~allow_ungrounded
                         THEN filter_grounded_only(statements)
                         ELSE statements
    /\ pc' = "grounded"
    /\ UNCHANGED <<projected, perm, rows, file, log, run, rows1, evidence, keep, reportVars, summaryVars, graphVars, exportVars>>

BeliefFilter_never ==
    /\ pc = "grounded"
    /\ \E minimum_belief \in Arg("minimum_belief", MinimumBeliefs) :
        /\ args' = Bind("minimum_belief", minimum_belief)
        /\ statements' = statements
    /\ pc' = "filtered"
    /\ UNCHANGED <<projected, perm, rows, file, log, run, rows1, evidence, keep, reportVars, summaryVars, graphVars, exportVars>>

\* if minimum_belief is not None: statements = filter_belief(statements, minimum_belief)
BeliefFilter ==
    /\ pc = "grounded"
    /\ \E minimum_belief \in Arg("minimum_belief", MinimumBeliefs) :
        /\ args' = Bind("minimum_belief", minimum_belief)
        /\ statements' = IF minimum_belief # {}
                         THEN filter_belief(statements, CHOOSE b \in minimum_belief : TRUE)
                         ELSE statements
    /\ pc' = "filtered"
    /\ UNCHANGED <<projected, perm, rows, file, log, run, rows1, evidence, keep, reportVars, summaryVars, graphVars, exportVars>>

Project_at_start ==
    /\ pc = "start"
    /\ \E allow_duplicates \in Arg("allow_duplicates", BOOLEAN),
          keep_only_pmids \in Arg("keep_only_pmids", KeepOnlyPmids) :
        LET got == get_rows_from_statements(statements, allow_duplicates, keep_only_pmids)
        IN  /\ args' = (IF "allow_duplicates" \in DOMAIN args THEN args
                        ELSE args @@ ("allow_duplicates" :> allow_duplicates)
                                  @@ ("keep_only_pmids" :> keep_only_pmids))
            /\ statements' = got.statements
            /\ projected' = got.rows
    /\ pc' = "projected"
    /\ UNCHANGED <<perm, rows, file, log, run, rows1, evidence, keep, reportVars, summaryVars, graphVars, exportVars>>

\* rows = get_rows_from_statements(statements, allow_duplicates=..., keep_only_pmids=...)
Project ==
    /\ pc = "filtered"
    /\ \E allow_duplicates \in Arg("allow_duplicates", BOOLEAN),
          keep_only_pmids \in Arg("keep_only_pmids", KeepOnlyPmids) :
        LET got == get_rows_from_statements(statements, allow_duplicates, keep_only_pmids)
        IN  /\ args' = (IF "allow_duplicates" \in DOMAIN args THEN args
                        ELSE args @@ ("allow_duplicates" :> allow_duplicates)
                                  @@ ("keep_only_pmids" :> keep_only_pmids))
            /\ statements' = got.statements
            /\ projected' = got.rows
    /\ pc' = "projected"
    /\ UNCHANGED <<perm, rows, file, log, run, rows1, evidence, keep, reportVars, summaryVars, graphVars, exportVars>>

\* rows = sorted(rows, key=attrgetter of sort_attrs)
Sort ==
    /\ pc = "projected"
    /\ perm' = SortedOrder(projected)
    /\ rows' = [i \in 1..Len(projected) |-> projected[perm'[i]]]
    /\ pc' = "sorted"
    /\ UNCHANGED <<args, statements, projected, file, log, run, rows1, evidence, keep, reportVars, summaryVars, graphVars, exportVars>>

\* if limit is not None: rows = rows[:limit]
Limit ==
    /\ pc = "sorted"
    /\ \E limit \in Arg("limit", Limits) :
        /\ args' = Bind("limit", limit)
        /\ rows' = IF limit # {} THEN Slice(rows, CHOOSE n \in limit : TRUE) ELSE rows
    /\ pc' = "limited"
    /\ UNCHANGED <<statements, projected, perm, file, log, run, rows1, evidence, keep, reportVars, summaryVars, graphVars, exportVars>>

Write_header_always ==
    /\ pc = "limited"
    /\ \E extra_columns \in Arg("extra_columns", ExtraColumns) :
        LET placeholders == [k \in 1..Len(extra_columns) |-> ""]
            written(r) == start_tuple(r) \o placeholders \o end_tuple(r)
        IN  /\ args' = Bind("extra_columns", extra_columns)
            /\ file' = file \o << start_header \o extra_columns \o end_header >>
                            \o [i \in 1..Len(rows) |-> written(rows[i])]
            /\ UNCHANGED log
    /\ pc' = "done"
    /\ UNCHANGED <<statements, projected, perm, rows, run, rows1, evidence, keep, reportVars, summaryVars, graphVars, exportVars>>

\* if not rows: log a warning and return; else write the header and the rows
Write ==
    /\ pc = "limited"
    /\ IF Len(rows) = 0
       THEN /\ log' = Append(log, <<"no rows written">>)
            /\ UNCHANGED <<args, file>>
       ELSE \E extra_columns \in Arg("extra_columns", ExtraColumns) :
            LET placeholders == [k \in 1..Len(extra_columns) |-> ""]
                written(r) == start_tuple(r) \o placeholders \o end_tuple(r)
            IN  /\ args' = Bind("extra_columns", extra_columns)
                /\ file' = file \o << start_header \o extra_columns \o end_header >>
                                \o [i \in 1..Len(rows) |-> written(rows[i])]
                /\ UNCHANGED log
    /\ pc' = "done"
    /\ UNCHANGED <<statements, projected, perm, rows, run, rows1, evidence, keep, reportVars, summaryVars, graphVars, exportVars>>

\* print_statements is called again, with the same thresholds and flags, on
\* the statements the first call left
Rerun ==
    /\ pc = "done"
    /\ run = 1
    /\ run' = 2
    /\ rows1' = rows
    /\ pc' = "start"
    /\ projected' = <<>>
    /\ perm' = <<>>
    /\ rows' = <<>>
    /\ file' = <<>>
    /\ log' = <<>>
    /\ args' = [name \in DOMAIN args \ {"extra_columns"} |-> args[name]]
    /\ UNCHANGED <<statements, evidence, keep, reportVars, summaryVars, graphVars, exportVars>>

Init ==
    /\ pc = "start"
    /\ args = Idle
    /\ statements \in StatementLists
    /\ projected = <<>>
    /\ perm = <<>>
    /\ rows = <<>>
    /\ file = <<>>
    /\ log = <<>>
    /\ run = 1
    /\ rows1 = <<>>
    /\ evidence = eA
    /\ keep = FALSE
    /\ ReportIdle
    /\ SummaryIdle
    /\ GraphIdle
    /\ ExportIdle

Next ==
    \/ Preassemble
    \/ GroundedFilter
    \/ BeliefFilter
    \/ Project
    \/ Sort
    \/ Limit
    \/ Write

Spec == Init /\ [][Next]_vars

NextRerun == Next \/ Rerun

SpecRerun == Init /\ [][NextRerun]_vars

-----------------------------------------------------------------------------
(* _keep_evidence on every evidence record *)

KeepEvidence ==
    /\ pc = "keep_start"
    /\ keep' = _keep_evidence(evidence)
    /\ pc' = "keep_done"
    /\ UNCHANGED <<args, statements, projected, perm, rows, file, log, run, rows1, evidence, reportVars, summaryVars, graphVars, exportVars>>

InitKeep ==
    /\ pc = "keep_start"
    /\ evidence \in Evidences
    /\ keep = FALSE
    /\ args = Idle
    /\ statements = <<>>
    /\ projected = <<>>
    /\ perm = <<>>
    /\ rows = <<>>
    /\ file = <<>>
    /\ log = <<>>
    /\ run = 1
    /\ rows1 = <<>>
    /\ ReportIdle
    /\ SummaryIdle
    /\ GraphIdle
    /\ ExportIdle

NextKeep == KeepEvidence

SpecKeep == InitKeep /\ [][NextKeep]_vars

-----------------------------------------------------------------------------
(* generate_curation_report (sheets.py) *)

MaxRows == 3

NOT_CURATED == "Not curated"
ERROR == "Error"
CORRECT == "Correct"
ERROR_BUT_ALSO_OTHER_STATEMENT == "Error but other statement was identified"
MODIFIED_BY_CURATOR == "Modified by curator"

\* pybel.constants
CAUSAL_INCREASE_RELATIONS == {"increases", "directlyIncreases"}
CAUSAL_DECREASE_RELATIONS == {"decreases", "directlyDecreases"}

RequiredColumns == <<"Curator", "Checked", "Correct", "Changed">>
AllColumns == {"Curator", "Checked", "Correct", "Changed", "Evidence", "Predicate"}

\* the sheets at `path`: what pd.read_excel does, and the columns of the frame
Sheets ==
    [read : {"ok", "LookupError", "OSError"}, columns : {AllColumns}]
        \cup {[read |-> "ok", columns |-> AllColumns \ {RequiredColumns[k]}] : k \in 1..4}

EdgeTypeFilters == {None, "activation_edges", "inhibition_edges", "causal_edges"}

SheetRows == [Evidence : {NO_EVIDENCE_TEXT, "binds"},
              Predicate : {"increases", "decreases", "association"},
              Checked : {NaN, "x"}, Correct : {NaN, "x"}, Changed : {NaN, "x"}]

\* pd.notnull(cell)
notnull(cell) == cell \notin {NaN, None}

\* _check_curation_template_columns: the first required column the frame
\* lacks, None when it has them all
_check_curation_template_columns(columns) ==
    IF \A k \in 1..4 : RequiredColumns[k] \in columns THEN None
    ELSE LET k == CHOOSE i \in 1..4 :
                    /\ RequiredColumns[i] \notin columns
                    /\ \A j \in 1..(i - 1) : RequiredColumns[j] \in columns
         IN  RequiredColumns[k]

\* curation_results[label] += 1 on a defaultdict(int)
Incremented(counts, label) ==
    IF label \in DOMAIN counts THEN [counts EXCEPT ![label] = @ + 1]
    ELSE counts @@ (label :> 1)

Count(counts, label) == IF label \in DOMAIN counts THEN counts[label] ELSE 0

_skips_row_without_guard(r, filter) ==
    /\ filter # None
    /\ \/ filter = "activation_edges" /\ r.Predicate \notin CAUSAL_INCREASE_RELATIONS
       \/ filter = "inhibition_edges" /\ r.Predicate \notin CAUSAL_DECREASE_RELATIONS

\* the two `continue`s of the loop: the placeholder evidence, the edge type
_skips_row(r, filter) ==
    \/ r.Evidence = "No evidence text."
    \/ /\ filter # None
       /\ \/ filter = "activation_edges" /\ r.Predicate \notin CAUSAL_INCREASE_RELATIONS
          \/ filter = "inhibition_edges" /\ r.Predicate \notin CAUSAL_DECREASE_RELATIONS

\* raise ValueError(f'Not valid edge_type: {edge_type_filter}')
_raises_on_row(r, filter) ==
    /\ ~_skips_row(r, filter)
    /\ filter # None
    /\ filter \notin {"activation_edges", "inhibition_edges"}

_classify_checked_is_error(checked, correct, changed) ==
    IF ~(checked \/ correct \/ changed) THEN NOT_CURATED
    ELSE IF checked THEN ERROR
    ELSE IF correct /\ ~changed THEN CORRECT
    ELSE IF changed /\ correct THEN "conflict"
    ELSE IF changed THEN ERROR_BUT_ALSO_OTHER_STATEMENT
    ELSE None

\* the if/elif chain on the three presence flags: the label that is
\* incremented, "conflict" for the branch that logs, None when no branch is taken
_classify(checked, correct, changed) ==
    IF ~(checked \/ correct \/ changed) THEN NOT_CURATED
    ELSE IF checked /\ ~(correct \/ changed) THEN ERROR
    ELSE IF correct /\ ~changed THEN CORRECT
    ELSE IF checked /\ changed THEN MODIFIED_BY_CURATOR
    ELSE IF changed /\ correct THEN "conflict"
    ELSE IF changed THEN ERROR_BUT_ALSO_OTHER_STATEMENT
    ELSE None

\* df = pd.read_excel(path) and the check of the columns
ReportOpen ==
    /\ pc = "report_start"
    /\ IF sheet.read = "LookupError"
       THEN /\ log' = Append(log, <<"Error opening">>)
            /\ pc' = "report_returned"
       ELSE IF sheet.read # "ok"
       THEN /\ pc' = "report_raised"
            /\ UNCHANGED log
       ELSE IF _check_curation_template_columns(sheet.columns) # None
       THEN /\ log' = Append(log, <<"is missing the column",
                                    _check_curation_template_columns(sheet.columns)>>)
            /\ pc' = "report_raised"
       ELSE /\ pc' = "report_rows"
            /\ UNCHANGED log
    /\ curation_results' = <<>>
    /\ UNCHANGED <<args, statements, projected, perm, rows, file, run, rows1, evidence, keep,
                   sheet, edge_type_filter, line, sheet_row, skipped,
                   summaryVars, graphVars, exportVars>>

\* one turn of `for line, row in df.iterrows()`
ReportRow ==
    /\ pc = "report_rows"
    /\ line < MaxRows
    /\ \E r \in SheetRows :
        /\ sheet_row' = r
        /\ line' = line + 1
        /\ IF _skips_row(r, edge_type_filter)
           THEN /\ skipped' = skipped + 1
                /\ UNCHANGED <<pc, curation_results, log>>
           ELSE IF _raises_on_row(r, edge_type_filter)
           THEN /\ pc' = "report_raised"
                /\ UNCHANGED <<curation_results, log, skipped>>
           ELSE LET label == _classify(notnull(r.Checked), notnull(r.Correct),
                                       notnull(r.Changed))
                    counted == IF label \in {"conflict", None} THEN curation_results
                               ELSE Incremented(curation_results, label)
                IN  /\ curation_results' = Incremented(counted, "Total")
                    /\ log' = IF label = "conflict"
                              THEN Append(log, <<"Conflict in row", line>>)
                              ELSE log
                    /\ UNCHANGED <<pc, skipped>>
    /\ UNCHANGED <<args, statements, projected, perm, rows, file, run, rows1, evidence, keep,
                   sheet, edge_type_filter, summaryVars, graphVars, exportVars>>

\* return dict(curation_results)
ReportReturn ==
    /\ pc = "report_rows"
    /\ pc' = "report_returned"
    /\ UNCHANGED <<args, statements, projected, perm, rows, file, log, run, rows1, evidence,
                   keep, reportVars, summaryVars, graphVars, exportVars>>

InitReport ==
    /\ pc = "report_start"
    /\ sheet \in Sheets
    /\ edge_type_filter \in EdgeTypeFilters
    /\ curation_results = <<>>
    /\ line = 0
    /\ sheet_row = NoRow
    /\ skipped = 0
    /\ args = Idle
    /\ statements = <<>>
    /\ projected = <<>>
    /\ perm = <<>>
    /\ rows = <<>>
    /\ file = <<>>
    /\ log = <<>>
    /\ run = 1
    /\ rows1 = <<>>
    /\ evidence = eA
    /\ keep = FALSE
    /\ SummaryIdle
    /\ GraphIdle
    /\ ExportIdle

NextReport ==
    \/ ReportOpen
    \/ ReportRow
    \/ ReportReturn

SpecReport == InitReport /\ [][NextReport]_vars

-----------------------------------------------------------------------------
(* generate_curation_summary and generate_error_types (sheets.py) *)

MaxSheets == 2
MaxSummaryRows == 2

\* the parent folders of the sheets found: path.split('/')[-2]
UNITS == {"AKT1", "TP53"}

\* error.lower() on the characters the cells are written with
lower(s) ==
    [i \in 1..Len(s) |-> CASE s[i] = "A" -> "a" [] s[i] = "B" -> "b" [] OTHER -> s[i]]

\* error.strip()
RECURSIVE strip(_)
strip(s) ==
    IF Len(s) = 0 THEN s
    ELSE IF s[1] = " " THEN strip(Tail(s))
    ELSE IF s[Len(s)] = " " THEN strip(SubSeq(s, 1, Len(s) - 1))
    ELSE s

\* str.split(','): the pieces of s between the commas
RECURSIVE split(_)
split(s) ==
    IF \A i \in 1..Len(s) : s[i] # ","
    THEN << s >>
    ELSE LET c == CHOOSE i \in 1..Len(s) : s[i] = "," /\ \A j \in 1..(i - 1) : s[j] # ","
         IN  << SubSeq(s, 1, c - 1) >> \o split(SubSeq(s, c + 1, Len(s)))

\* pd.isnull on a cell of the 'Error Type' column: the cell is no text, or
\* the text it holds, character by character
isnull(cell) == cell = {}

Text(cell) == CHOOSE s \in cell : TRUE

\* the cells of the 'Error Type' column: empty, "a", "A, b"
ErrorTypeCells == {{}, {<<"a">>}, {<<"A", ",", " ", "b">>}}

SummaryRow(ev, pred, checked, correct, changed, error_type) ==
    [Evidence |-> ev, Predicate |-> pred, Checked |-> checked, Correct |-> correct,
     Changed |-> changed, ErrorType |-> error_type]

sNotCurated == SummaryRow("binds", "increases", NaN, NaN, NaN, {})
sError == SummaryRow("binds", "increases", "x", NaN, NaN, {<<"A", ",", " ", "b">>})
sCorrect == SummaryRow("binds", "increases", "x", "x", NaN, {<<"a">>})
sModified == SummaryRow("binds", "decreases", "x", NaN, "x", {})
sOther == SummaryRow("binds", "increases", NaN, NaN, "x", {})
sConflict == SummaryRow("binds", "increases", NaN, "x", "x", {})
sPlaceholder == SummaryRow(NO_EVIDENCE_TEXT, "increases", "x", NaN, NaN, {<<"a">>})

\* the rows the sheets of the directory are made of
SummaryRows == {sNotCurated, sError, sCorrect, sModified, sOther, sConflict, sPlaceholder}

SummaryColumns == AllColumns \cup {"Error Type"}

\* a sheet of five rows: not curated, error, correct, correct, modified
ExampleSheet == <<sNotCurated, sError, sCorrect, sCorrect, sModified>>

\* a sheet with a row for each branch of the classification
FullSheet == <<sNotCurated, sError, sCorrect, sModified, sOther, sConflict>>

\* the sheets iterate_sheets_paths finds: readable with all the columns and
\* any rows, unreadable, or lacking one of the required columns
SummarySheets ==
    [read : {"ok"}, columns : {SummaryColumns},
     rows : SeqsUpTo(SummaryRows, MaxSummaryRows) \cup {ExampleSheet, FullSheet}]
      \cup [read : {"LookupError", "OSError"}, columns : {SummaryColumns}, rows : {<<>>}]
      \cup {[read |-> "ok", columns |-> SummaryColumns \ {RequiredColumns[k]},
             rows |-> << sCorrect >>] : k \in 1..4}

\* generate_curation_report on the whole sheet: how the call ends, the
\* dictionary it returns and the messages it logs
generate_curation_report(sh, filter) ==
    IF sh.read = "LookupError"
    THEN [ends |-> "returned", results |-> <<>>, logged |-> << <<"Error opening">> >>]
    ELSE IF sh.read # "ok"
    THEN [ends |-> "raised", results |-> <<>>, logged |-> <<>>]
    ELSE IF _check_curation_template_columns(sh.columns) # None
    THEN [ends |-> "raised", results |-> <<>>,
          logged |-> << <<"is missing the column",
                          _check_curation_template_columns(sh.columns)>> >>]
    ELSE LET RECURSIVE turn(_, _, _)
             turn(k, counts, lg) ==
                 IF k > Len(sh.rows)
                 THEN [ends |-> "returned", results |-> counts, logged |-> lg]
                 ELSE IF _skips_row(sh.rows[k], filter)
                 THEN turn(k + 1, counts, lg)
                 ELSE IF _raises_on_row(sh.rows[k], filter)
                 THEN [ends |-> "raised", results |-> counts, logged |-> lg]
                 ELSE LET label == _classify(notnull(sh.rows[k].Checked),
                                             notnull(sh.rows[k].Correct),
                                             notnull(sh.rows[k].Changed))
                          counted == IF label \in {"conflict", None} THEN counts
                                     ELSE Incremented(counts, label)
                      IN  turn(k + 1, Incremented(counted, "Total"),
                               IF label = "conflict"
                               THEN Append(lg, <<"Conflict in row", k - 1>>)
                               ELSE lg)
         IN  turn(1, <<>>, <<>>)

\* error_types[error.lower().strip()] += 1 for each piece of the cell
RECURSIVE _count_errors(_, _)
_count_errors(error_types, pieces) ==
    IF Len(pieces) = 0 THEN error_types
    ELSE _count_errors(Incremented(error_types, strip(lower(Head(pieces)))), Tail(pieces))

\* generate_error_types on the whole sheet: the counters it returns
generate_error_types(sh) ==
    LET RECURSIVE turn(_, _)
        turn(k, error_types) ==
            IF k > Len(sh.rows) THEN error_types
            ELSE IF isnull(sh.rows[k].ErrorType) THEN turn(k + 1, error_types)
            ELSE turn(k + 1, _count_errors(error_types, split(Text(sh.rows[k].ErrorType))))
    IN  turn(1, <<>>)

\* d[key] = value on a dict
Assigned(d, k, value) ==
    IF k \in DOMAIN d THEN [d EXCEPT ![k] = value] ELSE d @@ (k :> value)

\* pd.DataFrame.from_dict(d, orient='index').fillna(0).astype(int): one line
\* for each key, one column for each label some dictionary holds
from_dict(d) ==
    LET columns == UNION {DOMAIN d[k] : k \in DOMAIN d}
    IN  [k \in DOMAIN d |-> [c \in columns |-> Count(d[k], c)]]

ColumnsOf(frame) == UNION {DOMAIN frame[k] : k \in DOMAIN frame}

\* the columns the summary frame is rearranged to
SummaryOrder == <<CORRECT, ERROR, ERROR_BUT_ALSO_OTHER_STATEMENT, MODIFIED_BY_CURATOR,
                  NOT_CURATED, "Total">>

\* `if not d: ... continue` lets only a sheet with a report reach generate_error_types
_records_errors(d) == DOMAIN d # {}

\* one turn of `for path in paths`
SummaryPath ==
    /\ pc = "summary_paths"
    /\ n_paths < MaxSheets
    /\ \E unit \in UNITS, sh \in SummarySheets :
        LET d == generate_curation_report(sh, edge_type_filter)
        IN  /\ path' = [unit |-> unit, read |-> sh.read, columns |-> sh.columns,
                        rows |-> sh.rows]
            /\ IF d.ends = "raised"
               THEN /\ pc' = "summary_raised"
                    /\ log' = log \o d.logged
                    /\ UNCHANGED <<summary_excel_rows, error_excel_rows>>
               ELSE /\ pc' = pc
                    /\ summary_excel_rows' = Assigned(summary_excel_rows, unit, d.results)
                    /\ IF _records_errors(d.results)
                       THEN /\ error_excel_rows' =
                                   Assigned(error_excel_rows, unit, generate_error_types(sh))
                            /\ log' = log \o d.logged
                       ELSE /\ log' = log \o d.logged \o << <<"Missing sheet">> >>
                            /\ UNCHANGED error_excel_rows
    /\ n_paths' = n_paths + 1
    /\ UNCHANGED <<pipelineVars, reportVars, summary_csv, error_csv, graphVars, exportVars>>

\* the two reports are exported: the summary frame, rearranged, then the
\* error types frame
SummaryExport ==
    /\ pc = "summary_paths"
    /\ LET df_summary == from_dict(summary_excel_rows)
           df_error == from_dict(error_excel_rows)
       IN  IF \E k \in 1..Len(SummaryOrder) : SummaryOrder[k] \notin ColumnsOf(df_summary)
           THEN /\ pc' = "summary_raised"
                /\ UNCHANGED <<summary_csv, error_csv>>
           ELSE /\ pc' = "summary_done"
                /\ summary_csv' = {df_summary}
                /\ error_csv' = {df_error}
    /\ UNCHANGED <<pipelineVars, reportVars, log, summary_excel_rows, error_excel_rows,
                   path, n_paths, graphVars, exportVars>>

InitSummary ==
    /\ pc = "summary_paths"
    /\ edge_type_filter \in EdgeTypeFilters
    /\ sheet = NoSheet
    /\ curation_results = <<>>
    /\ line = 0
    /\ sheet_row = NoRow
    /\ skipped = 0
    /\ SummaryIdle
    /\ args = Idle
    /\ statements = <<>>
    /\ projected = <<>>
    /\ perm = <<>>
    /\ rows = <<>>
    /\ file = <<>>
    /\ log = <<>>
    /\ run = 1
    /\ rows1 = <<>>
    /\ evidence = eA
    /\ keep = FALSE
    /\ GraphIdle
    /\ ExportIdle

NextSummary ==
    \/ SummaryPath
    \/ SummaryExport

SpecSummary == InitSummary /\ [][NextSummary]_vars

-----------------------------------------------------------------------------
(* BELSheetsRepository.get_graph (repository.py) and process_row (sheets.py) *)

MaxLines == 3
MaxCalls == 2

\* the cell of a boolean FALSE; an empty cell is NaN
PyFalse == "<False>"

\* the truth value of a cell: NaN, a float that is not zero, is true
bool(cell) == cell # PyFalse /\ cell # ""

\* str(cell)
str(cell) ==
    CASE cell = NaN -> "nan"
      [] cell = PyFalse -> "False"
      [] OTHER -> cell

TemplateColumns == {"Curator", "Checked", "Correct", "Changed", "Evidence", "Subject",
                    "Predicate", "Object"}

\* what pd.read_excel makes of the sheets of the directory: the sheet as
\* print_statements wrote it, a sheet with a 'Citation Reference' column and
\* no INDRA column, a sheet with no reference column, a sheet without
\* 'Checked', and the sheets that cannot be read
Frames ==
    [read : {"ok"},
     columns : {TemplateColumns \cup {"PMID", "INDRA UUID", "Belief", "API"},
                TemplateColumns \cup {"Citation Reference", "PMID"},
                TemplateColumns,
                (TemplateColumns \cup {"PMID"}) \ {"Checked"}}]
      \cup [read : {"LookupError", "OSError"}, columns : {{}}]

GraphRow_(checked, correct, changed, reference, pmid, predicate, object) ==
    [Checked |-> checked, Correct |-> correct, Changed |-> changed,
     CitationReference |-> reference, PMID |-> pmid,
     Subject |-> "p(HGNC:AKT1)", Predicate |-> predicate, Object |-> object]

gEmpty == GraphRow_(NaN, NaN, NaN, "200", "100", "increases", "p(HGNC:TP53)")
gUnchecked == GraphRow_(PyFalse, "x", NaN, "200", "100", "increases", "p(HGNC:TP53)")
gNeither == GraphRow_("x", PyFalse, PyFalse, "200", "100", "increases", "p(HGNC:TP53)")
gCheckedOnly == GraphRow_("x", NaN, NaN, "200", "100", "increases", "p(HGNC:TP53)")
gCorrect == GraphRow_("x", "x", NaN, "200", "100", "increases", "p(HGNC:TP53)")
gNoReference == GraphRow_("x", "x", NaN, NaN, NaN, "increases", "p(HGNC:TP53)")
gSyntax == GraphRow_("x", NaN, "x", "200", "100", "incraeses", "p(HGNC:TP53)")
gSemantic == GraphRow_("x", "x", NaN, "200", "100", "increases", "p(HGNC:XXXX)")

\* the rows of the sheets of the directory
GraphRows == {gEmpty, gUnchecked, gNeither, gCheckedOnly, gCorrect, gNoReference,
              gSyntax, gSemantic}

\* the cell of a column that process_row only copies, told apart by its place
Cell(column, p, ln) == <<column, p, ln>>

\* BELParser.parseString on f"{sub} {row['Predicate']} {obj}": what it raises
parseString(sub, predicate, obj) ==
    IF predicate \notin {"increases", "decreases"} THEN "ParseException"
    ELSE IF \E term \in {sub, obj} : term \notin {"p(HGNC:AKT1)", "p(HGNC:TP53)"}
    THEN "BELParserWarning"
    ELSE "ok"

\* dict.update
update(d, e) == [k \in DOMAIN d \cup DOMAIN e |-> IF k \in DOMAIN e THEN e[k] ELSE d[k]]

_catches_only_warning(exc) == exc = "BELParserWarning"

\* except BELParserWarning / except pyparsing.ParseException
_catches(exc) == exc \in {"BELParserWarning", "ParseException"}

\* process_row(bel_parser, row, line_number) for a row of a frame with the
\* given columns: whether it raises, the parser context and the graph it
\* leaves, and the parseString call it makes, if any
process_row(ctx, g, columns, row, ln) ==
    LET same == [raises |-> FALSE, parser |-> ctx, graph |-> g, call |-> {}]
        raised(c) == [raises |-> TRUE, parser |-> c, graph |-> g, call |-> {}]
        cell(column) == Cell(column, g.path, ln)
    IN  IF ~bool(row.Checked) THEN same
        ELSE IF ~(bool(row.Correct) \/ bool(row.Changed)) THEN same
        ELSE IF "Citation Reference" \notin columns /\ "PMID" \notin columns
        THEN raised(ctx)
        ELSE LET reference == str(IF "Citation Reference" \in columns
                                  THEN row.CitationReference
                                  ELSE row.PMID)
                 ctx1 == [ctx EXCEPT !.citation = {[type |-> "PubMed",
                                                    reference |-> reference]}]
                 ctx2 == [ctx1 EXCEPT !.evidence = cell("Evidence")]
                 keys == {"Curator", "Confidence"}
                            \cup (IF "INDRA UUID" \in columns THEN {"INDRA_UUID"} ELSE {})
                            \cup (IF "Belief" \in columns THEN {"INDRA_Belief"} ELSE {})
                            \cup (IF "API" \in columns THEN {"INDRA_API"} ELSE {})
                 annotations ==
                    [k \in keys |->
                        CASE k = "Curator" -> cell("Curator")
                          [] k = "Confidence" -> <<"Medium">>
                          [] k = "INDRA_UUID" -> cell("INDRA UUID")
                          [] k = "INDRA_Belief" -> cell("Belief")
                          [] k = "INDRA_API" -> cell("API")]
                 ctx3 == [ctx2 EXCEPT !.annotations = update(@, annotations)]
                 exc == parseString(row.Subject, row.Predicate, row.Object)
                 call == [line_number |-> ln, path |-> g.path, context |-> ctx3]
             IN  IF reference = "" THEN raised(ctx)
                 ELSE IF "Evidence" \notin columns THEN raised(ctx1)
                 ELSE IF ~({"Subject", "Object", "Predicate"} \subseteq columns)
                 THEN raised(ctx3)
                 ELSE IF exc = "ok"
                 THEN [raises |-> FALSE, parser |-> ctx3, call |-> {call},
                       graph |-> [g EXCEPT !.edges = Append(@, <<g.path, ln, reference>>)]]
                 ELSE IF _catches(exc)
                 THEN [raises |-> FALSE, parser |-> ctx3, call |-> {call},
                       graph |-> [g EXCEPT !.warnings = Append(@, <<g.path, ln, exc>>)]]
                 ELSE [raises |-> TRUE, parser |-> ctx3, call |-> {call}, graph |-> g]

\* pybel.to_pickle, from_pickle, to_json_path
to_pickle(g) == [pickled |-> g]
from_pickle(file_) == file_.pickled
to_json_path(g) == [nodelink |-> g]

\* a graph pickled by an earlier run
OldGraph == [path |-> 1, edges |-> << <<1, 0, "100">> >>, warnings |-> <<>>]

GetGraphEntry_cached_whenever_pickled ==
    \E uc \in BOOLEAN :
        /\ use_cached' = uc
        /\ n_calls' = n_calls + 1
        /\ n_sheets' = 0
        /\ n_lines' = 0
        /\ n_read' = 0
        /\ IF cache_pickle # {}
           THEN /\ returned' = {from_pickle(b) : b \in cache_pickle}
                /\ pc' = "graph_returned"
                /\ UNCHANGED <<bel_parser, sheets_graph, last_call>>
           ELSE /\ sheets_graph' = NoGraph
                /\ bel_parser' = NoContext
                /\ last_call' = {}
                /\ returned' = {}
                /\ pc' = "graph_paths"
        /\ UNCHANGED <<pipelineVars, reportVars, summaryVars, log, disk, df, df_row,
                       line_number, cache_pickle, cache_json, exportVars>>

\* the entry of get_graph: the pickled graph is returned if use_cached and
\* the pickle exists; else a new graph and a new parser are made
GetGraphEntry ==
    \E uc \in BOOLEAN :
        /\ use_cached' = uc
        /\ n_calls' = n_calls + 1
        /\ n_sheets' = 0
        /\ n_lines' = 0
        /\ n_read' = 0
        /\ IF uc /\ cache_pickle # {}
           THEN /\ returned' = {from_pickle(b) : b \in cache_pickle}
                /\ pc' = "graph_returned"
                /\ UNCHANGED <<bel_parser, sheets_graph, last_call>>
           ELSE /\ sheets_graph' = NoGraph
                /\ bel_parser' = NoContext
                /\ last_call' = {}
                /\ returned' = {}
                /\ pc' = "graph_paths"
        /\ UNCHANGED <<pipelineVars, reportVars, summaryVars, log, disk, df, df_row,
                       line_number, cache_pickle, cache_json, exportVars>>

\* get_graph is called
GetGraph ==
    /\ pc = "graph_idle"
    /\ GetGraphEntry

\* get_graph is called again, after a call that returned or raised
GetGraphAgain ==
    /\ pc \in {"graph_returned", "graph_raised"}
    /\ n_calls < MaxCalls
    /\ GetGraphEntry

\* one turn of `for path in paths`, up to graph.path = path
GraphPath ==
    /\ pc = "graph_paths"
    /\ n_sheets < MaxSheets
    /\ \E f \in disk.frames :
        /\ df' = f
        /\ IF f.read = "LookupError"
           THEN /\ log' = Append(log, <<"Error opening">>)
                /\ UNCHANGED <<pc, sheets_graph>>
           ELSE IF f.read # "ok"
           THEN /\ pc' = "graph_raised"
                /\ UNCHANGED <<log, sheets_graph>>
           ELSE IF _check_curation_template_columns(f.columns) # None
           THEN /\ log' = Append(log, <<"is missing the column",
                                        _check_curation_template_columns(f.columns)>>)
                /\ UNCHANGED <<pc, sheets_graph>>
           ELSE /\ sheets_graph' = [sheets_graph EXCEPT !.path = n_sheets + 1]
                /\ pc' = "graph_rows"
                /\ UNCHANGED log
    /\ n_sheets' = n_sheets + 1
    /\ n_read' = n_read + 1
    /\ line_number' = -1
    /\ UNCHANGED <<pipelineVars, reportVars, summaryVars, disk, use_cached, bel_parser,
                   last_call, df_row, n_lines, n_calls, cache_pickle, cache_json, returned, exportVars>>

\* one turn of `for line_number, row in it`: process_row on the next row
GraphRow ==
    /\ pc = "graph_rows"
    /\ n_lines < MaxLines
    /\ \E r \in disk.rows :
        LET out == process_row(bel_parser, sheets_graph, df.columns, r, line_number + 1)
        IN  /\ df_row' = r
            /\ bel_parser' = out.parser
            /\ sheets_graph' = out.graph
            /\ last_call' = IF out.call = {} THEN last_call ELSE out.call
            /\ pc' = IF out.raises THEN "graph_raised" ELSE pc
    /\ line_number' = line_number + 1
    /\ n_lines' = n_lines + 1
    /\ UNCHANGED <<pipelineVars, reportVars, summaryVars, log, disk, use_cached, df,
                   n_sheets, n_read, n_calls, cache_pickle, cache_json, returned, exportVars>>

\* the rows of the sheet are exhausted
GraphSheetEnd ==
    /\ pc = "graph_rows"
    /\ pc' = "graph_paths"
    /\ UNCHANGED <<pipelineVars, reportVars, summaryVars, log, graphVars, exportVars>>

\* the paths are exhausted (prior is None, enrich_citations is False): the
\* graph is pickled, exported and returned
GraphFinish ==
    /\ pc = "graph_paths"
    /\ cache_pickle' = {to_pickle(sheets_graph)}
    /\ cache_json' = {to_json_path(sheets_graph)}
    /\ returned' = {sheets_graph}
    /\ pc' = "graph_returned"
    /\ UNCHANGED <<pipelineVars, reportVars, summaryVars, log, disk, use_cached, bel_parser,
                   sheets_graph, last_call, df, df_row, line_number, n_sheets, n_lines,
                   n_read, n_calls, exportVars>>

\* the state before get_graph is called on a directory of the given sheets
GraphStart(frames, rows_) ==
    /\ pc = "graph_idle"
    /\ disk = [frames |-> frames, rows |-> rows_]
    /\ use_cached = FALSE
    /\ bel_parser = NoContext
    /\ sheets_graph = NoGraph
    /\ last_call = {}
    /\ df = NoFrame
    /\ df_row = NoDfRow
    /\ line_number = 0
    /\ n_sheets = 0
    /\ n_lines = 0
    /\ n_read = 0
    /\ n_calls = 0
    /\ \/ cache_pickle = {} /\ cache_json = {}
       \/ cache_pickle = {to_pickle(OldGraph)} /\ cache_json = {to_json_path(OldGraph)}
    /\ returned = {}
    /\ ReportIdle
    /\ SummaryIdle
    /\ ExportIdle
    /\ args = Idle
    /\ statements = <<>>
    /\ projected = <<>>
    /\ perm = <<>>
    /\ rows = <<>>
    /\ file = <<>>
    /\ log = <<>>
    /\ run = 1
    /\ rows1 = <<>>
    /\ evidence = eA
    /\ keep = FALSE

InitGraph == GraphStart(Frames, GraphRows)

NextGraph ==
    \/ GetGraph
    \/ GraphPath
    \/ GraphRow
    \/ GraphSheetEnd
    \/ GraphFinish

\* one call of get_graph on any sheets
SpecGraph == InitGraph /\ [][NextGraph]_vars

\* the sheets of the repository when the calls are repeated
InitCache ==
    GraphStart({f \in Frames : f.read = "LookupError" \/ "API" \in f.columns},
               {gCorrect})

NextCache == NextGraph \/ GetGraphAgain

\* repeated calls of get_graph
SpecCache == InitCache /\ [][NextCache]_vars

-----------------------------------------------------------------------------
(* export_separate (workflow.py) *)

MaxGenes == 2
MaxExports == 3

\* the gene symbols get_gene_symbols may name
GENES == {"AKT1", "TP53", "EGFR"}

\* the lists get_gene_symbols returns: up to MaxGenes symbols, each once
GeneLists ==
    {q \in SeqsUpTo(GENES, MaxGenes) : \A i, j \in 1..Len(q) : i # j => q[i] # q[j]}

\* os.path.join(gene_directory, f'{gene_symbol}.bel.tsv'), under `directory`
tsv_path(gene_symbol) == <<gene_symbol, "bel.tsv">>

\* os.path.join(gene_directory, f'{gene_symbol}_statements.pkl')
pickle_path(gene_symbol) == <<gene_symbol, "statements.pkl">>

\* os.path.exists
exists(p) == p \in DOMAIN directory

\* open(p, 'w'): the file is created, or truncated, when it is opened
open(p) == IF exists(p) THEN [directory EXCEPT ![p] = <<>>] ELSE directory @@ (p :> <<>>)

\* the parameters of get_and_write_statements_from_agents
AgentsParameters ==
    {"agents", "file", "sep", "limit", "allow_duplicates", "allow_ungrounded",
     "minimum_belief"}

\* the keywords export_separate calls it with
ExportKeywords == {"agents", "file", "sep", "limit", "duplicates", "minimum_belief"}

\* a call with a keyword that is no parameter raises TypeError before the
\* body of the function runs
_binds(keywords, parameters) == keywords \subseteq parameters

\* what a call that binds leaves in the file: nothing (no rows, or the
\* retrieval raised) or the header and a row
Retrievals ==
    {[ends |-> "raised", lines |-> <<>>],
     [ends |-> "returned", lines |-> <<>>],
     [ends |-> "returned", lines |-> << start_header \o end_header, <<"row">> >>]}

\* export_separate is called: gene_symbols = get_gene_symbols(...)
ExportSeparate ==
    /\ pc \in {"export_idle", "export_raised"}
    /\ n_exports < MaxExports
    /\ n_exports' = n_exports + 1
    /\ gene_symbols' \in GeneLists
    /\ gene_index' = 1
    /\ pc' = "export_loop"
    /\ UNCHANGED <<pipelineVars, reportVars, summaryVars, graphVars, log, directory, csv_file>>

\* if os.path.exists(tsv_path): continue
ExportSkip ==
    /\ pc = "export_loop"
    /\ gene_index <= Len(gene_symbols)
    /\ exists(tsv_path(gene_symbols[gene_index]))
    /\ gene_index' = gene_index + 1
    /\ UNCHANGED <<pipelineVars, reportVars, summaryVars, graphVars, log, pc, gene_symbols,
                   directory, csv_file, n_exports>>

\* with open(tsv_path, 'w') as csv_file
ExportOpen ==
    /\ pc = "export_loop"
    /\ gene_index <= Len(gene_symbols)
    /\ ~exists(tsv_path(gene_symbols[gene_index]))
    /\ directory' = open(tsv_path(gene_symbols[gene_index]))
    /\ csv_file' = {tsv_path(gene_symbols[gene_index])}
    /\ pc' = "export_opened"
    /\ UNCHANGED <<pipelineVars, reportVars, summaryVars, graphVars, log, gene_symbols,
                   gene_index, n_exports>>

\* statements = get_and_write_statements_from_agents(...), the end of the
\* with statement, and pickle.dump(statements, pkl_file)
ExportRetrieve ==
    /\ pc = "export_opened"
    /\ csv_file' = {}
    /\ IF ~_binds(ExportKeywords, AgentsParameters)
       THEN /\ pc' = "export_raised"
            /\ UNCHANGED <<directory, gene_index>>
       ELSE \E got \in Retrievals :
            LET gene_symbol == gene_symbols[gene_index]
                written == [directory EXCEPT ![tsv_path(gene_symbol)] = got.lines]
            IN  IF got.ends = "raised"
                THEN /\ pc' = "export_raised"
                     /\ UNCHANGED <<directory, gene_index>>
                ELSE /\ directory' = written @@ (pickle_path(gene_symbol) :> <<"statements">>)
                     /\ gene_index' = gene_index + 1
                     /\ pc' = "export_loop"
    /\ UNCHANGED <<pipelineVars, reportVars, summaryVars, graphVars, log, gene_symbols,
                   n_exports>>

\* the loop is over: export_separate returns
ExportReturn ==
    /\ pc = "export_loop"
    /\ gene_index > Len(gene_symbols)
    /\ pc' = "export_idle"
    /\ UNCHANGED <<pipelineVars, reportVars, summaryVars, graphVars, log, gene_symbols,
                   gene_index, directory, csv_file, n_exports>>

InitExport ==
    /\ pc = "export_idle"
    /\ ExportIdle
    /\ ReportIdle
    /\ SummaryIdle
    /\ GraphIdle
    /\ args = Idle
    /\ statements = <<>>
    /\ projected = <<>>
    /\ perm = <<>>
    /\ rows = <<>>
    /\ file = <<>>
    /\ log = <<>>
    /\ run = 1
    /\ rows1 = <<>>
    /\ evidence = eA
    /\ keep = FALSE

NextExport ==
    \/ ExportSeparate
    \/ ExportSkip
    \/ ExportOpen
    \/ ExportRetrieve
    \/ ExportReturn

\* repeated calls of export_separate on one directory
SpecExport == InitExport /\ [][NextExport]_vars

-----------------------------------------------------------------------------
(* Claims *)

Empty(x) == x \in {None, ""}

\* the five reasons for which an evidence record is rejected
Rejected(e) ==
    \/ Empty(e.pmid)
    \/ Empty(e.text)
    \/ e.text \in {"No evidence text.", "Modified assertion"}
    \/ Empty(e.source_api)
    \/ e.source_api \in {"bel", "signor"}

\* C1: the evidence filter rejects an evidence record if and only if its pmid
\* is empty, its text is empty, its text is a blacklisted placeholder, its
\* source API is empty or its source API is blacklisted; it keeps every other.
C1_KeepIffNoneOfFive ==
    pc = "keep_done" => (keep <=> ~Rejected(evidence))

C1_Witness ==
    /\ pc = "keep_done"
    /\ ~keep
    /\ evidence.source_api = "signor"
    /\ evidence.pmid = "100"
    /\ evidence.text = "binds"

RowsOf(rs, uuid) == LET mine(r) == r.uuid = uuid IN SelectSeq(rs, mine)

\* C2, as claimed: with allow_duplicates=False one statement yields at most
\* one row, whatever the number of edges rendered for the surviving evidence.
C2_AtMostOneRow ==
    (pc = "projected" /\ ~args.allow_duplicates)
        => \A i \in 1..Len(statements) : Len(RowsOf(projected, statements[i].uuid)) <= 1

C2_Step ==
    (pc = "filtered" /\ pc' = "projected" /\ ~args'.allow_duplicates)
        => \A i \in 1..Len(statements) :
            LET st == statements[i]
                only == args'.keep_only_pmids
                survives(e) == ~Rejected(e) /\ (only.kind = "none" \/ e.pmid \in only.pmids)
                surviving == SelectSeq(st.evidence, survives)
                mine == RowsOf(projected', st.uuid)
            IN  /\ surviving = <<>> => mine = <<>>
                /\ Len(mine) <= Len(Content(st.mk).edges)
                /\ \A k \in 1..Len(mine) :
                    /\ mine[k].evidence_hash = SourceHash(surviving[1])
                    /\ mine[k].pmid = surviving[1].pmid
                    /\ mine[k].evidence = surviving[1].text

\* C2, amended: with allow_duplicates=False the rows of one statement all come
\* from one evidence, the first that survives the evidence filter and the
\* keep_only_pmids restriction, with at most one row for each edge rendered
\* for the statement; a statement with no such evidence yields no row.
C2_RowsOfFirstSurvivingEvidence == [][C2_Step]_vars

C2_Witness ==
    /\ pc = "projected"
    /\ ~args.allow_duplicates
    /\ \E i \in 1..Len(statements) : Len(RowsOf(projected, statements[i].uuid)) = 2

KeyUuidPmid(r) == <<Rank(UuidOrder, r.uuid), Rank(PmidOrder, r.pmid)>>
KeyPmidEvidence(r) == <<Rank(PmidOrder, r.pmid), Rank(TextOrder, r.evidence)>>

IsPermutation(q, n) ==
    /\ Len(q) = n
    /\ \A k \in 1..n : \E i \in 1..n : q[i] = k

Uuids(stmts) == {stmts[i].uuid : i \in 1..Len(stmts)}

\* q is p without some of its elements, the rest in p's order
Kept(p, belief_ok(_)) == SelectSeq(p, belief_ok)

C4_FilterStep ==
    (pc = "grounded" /\ pc' = "filtered") =>
        IF args'.minimum_belief = {}
        THEN statements' = statements
        ELSE LET minimum_belief == CHOOSE b \in args'.minimum_belief : TRUE
                 at_least(st) == st.belief >= minimum_belief
             IN  /\ statements' = Kept(statements, at_least)
                 /\ \A i \in 1..Len(statements) :
                     /\ statements[i].belief = minimum_belief
                            => statements[i].uuid \in Uuids(statements')
                     /\ statements[i].belief = minimum_belief - 1
                            => statements[i].uuid \notin Uuids(statements')

C4_ProjectStep ==
    (pc = "filtered" /\ pc' = "projected") =>
        /\ \A k \in 1..Len(projected') : projected'[k].uuid \in Uuids(statements)
        /\ \A i \in 1..Len(statements) :
            LET st == statements[i]
                only == args'.keep_only_pmids
                survives(e) == ~Rejected(e) /\ (only.kind = "none" \/ e.pmid \in only.pmids)
            IN  (/\ \E k \in 1..Len(st.evidence) : survives(st.evidence[k])
                 /\ ~Content(st.mk).raises)
                    => RowsOf(projected', st.uuid) # <<>>

\* C4: when minimum_belief is set, the belief filter keeps exactly the
\* statements whose belief is at least minimum_belief, so one whose belief
\* equals it is kept and one just below it is dropped; when minimum_belief is
\* None no statement is dropped.  Rows are projected from the kept statements
\* only, and every kept statement with a surviving evidence contributes rows.
C4_BeliefCutoff == [][C4_FilterStep /\ C4_ProjectStep]_vars

C4_Witness ==
    /\ pc = "projected"
    /\ args.minimum_belief = {500}
    /\ \E i \in 1..Len(statements) :
        statements[i].belief = 500 /\ RowsOf(projected, statements[i].uuid) # <<>>

SortedAll == [i \in 1..Len(projected) |-> projected[perm[i]]]

\* C5: when a limit is set, the rows written are exactly the first `limit`
\* rows of the fully sorted row sequence, all of them if there are fewer: no
\* written row sorts after a row that was cut.
C5_LimitAfterSort ==
    (pc \in {"limited", "done"} /\ args.limit # {}) =>
        LET limit == CHOOSE n \in args.limit : TRUE
            n == IF Len(SortedAll) < limit THEN Len(SortedAll) ELSE limit
        IN  /\ Len(rows) = n
            /\ \A i \in 1..n : rows[i] = SortedAll[i]
            /\ \A i \in 1..n, j \in (n + 1)..Len(SortedAll) :
                ~TupleLess(KeyUuidPmid(SortedAll[j]), KeyUuidPmid(rows[i]))
            /\ (pc = "done" /\ n > 0) =>
                /\ Len(file) = n + 1
                /\ \A i \in 1..n :
                    /\ SubSeq(file[i + 1], 1, 5) = start_tuple(rows[i])
                    /\ SubSeq(file[i + 1], Len(file[i + 1]) - 4, Len(file[i + 1]))
                           = end_tuple(rows[i])

C5_Witness ==
    /\ pc = "done"
    /\ args.limit = {1}
    /\ Len(projected) >= 2
    /\ perm[1] # 1
    /\ Len(file) = 2

\* C6: a second run of print_statements, with the same arguments, on the
\* statements the first run left (their evidence lists pruned in place) yields
\* the row sequence of the first run.
C6_Idempotent ==
    (run = 2 /\ pc \in {"limited", "done"}) => rows = rows1

C6_Witness ==
    /\ run = 2
    /\ pc = "done"
    /\ ~args.allow_duplicates
    /\ args.keep_only_pmids.kind # "none"
    /\ Len(rows1) >= 2

\* C7: when no row survives filtering, sorting and limiting, print_statements
\* writes nothing (neither header nor row line), logs a warning and returns.
C7_NoRowsNothingWritten ==
    /\ (pc = "done" /\ rows = <<>>) => (file = <<>> /\ log = << <<"no rows written">> >>)
    /\ (pc = "limited" /\ rows = <<>>) => ENABLED Write

C7_Witness ==
    /\ pc = "done"
    /\ rows = <<>>
    /\ projected # <<>>
    /\ log = << <<"no rows written">> >>

\* a turn of the loop of generate_curation_report
RowStep == pc = "report_rows" /\ line' = line + 1

Flags(r) == <<r.Checked # NaN, r.Correct # NaN, r.Changed # NaN>>

\* the outcome the table gives for the presence flags (checked, correct, changed)
Expected(flags) ==
    CASE flags = <<FALSE, FALSE, FALSE>> -> "Not curated"
      [] flags = <<TRUE, FALSE, FALSE>> -> "Error"
      [] flags = <<TRUE, TRUE, FALSE>> -> "Correct"
      [] flags = <<FALSE, TRUE, FALSE>> -> "Correct"
      [] flags = <<TRUE, FALSE, TRUE>> -> "Modified by curator"
      [] flags = <<FALSE, FALSE, TRUE>> -> "Error but other statement was identified"
      [] OTHER -> None

PassesEdgeFilter(r, filter) ==
    \/ filter = None
    \/ filter = "activation_edges" /\ r.Predicate \in {"increases", "directlyIncreases"}
    \/ filter = "inhibition_edges" /\ r.Predicate \in {"decreases", "directlyDecreases"}

CountsAs(r) ==
    curation_results' = Incremented(Incremented(curation_results, Expected(Flags(r))), "Total")

C8_ClaimedStep ==
    (/\ RowStep
     /\ sheet_row'.Evidence # "No evidence text."
     /\ Expected(Flags(sheet_row')) # None) => CountsAs(sheet_row')

\* C8, as claimed: a row whose evidence is not the placeholder is counted
\* under the outcome the table gives for its flags, and under that one only.
C8_FlagsToOutcome == [][C8_ClaimedStep]_vars

C8_Step ==
    (/\ RowStep
     /\ sheet_row'.Evidence # "No evidence text."
     /\ PassesEdgeFilter(sheet_row', edge_type_filter)
     /\ Expected(Flags(sheet_row')) # None) => CountsAs(sheet_row')

\* C8, amended: a row whose evidence is not the placeholder and that the
\* edge-type filter, when one is given, lets through is counted under the
\* outcome the table gives for its flags ((F,F,F) NotCurated; (T,F,F) Error;
\* (T,T,F) and (F,T,F) Correct; (T,F,T) ModifiedByCurator; (F,F,T)
\* ErrorButOtherStatementIdentified), and under that one outcome only.
C8_FlagsToOutcomeOfCountedRows == [][C8_Step]_vars

C8_Witness ==
    /\ pc = "report_rows"
    /\ edge_type_filter = "activation_edges"
    /\ sheet_row.Evidence = "binds"
    /\ sheet_row.Predicate = "increases"
    /\ Flags(sheet_row) = <<FALSE, FALSE, TRUE>>
    /\ Count(curation_results, "Error but other statement was identified") = 1
    /\ Count(curation_results, "Total") = 1

Outcomes == {"Not curated", "Error", "Correct", "Modified by curator",
             "Error but other statement was identified"}

IsConflict(entry) == entry[1] = "Conflict in row"
Conflicts(lg) == Len(SelectSeq(lg, IsConflict))

C9_ClaimedStep ==
    (/\ RowStep
     /\ sheet_row'.Evidence # "No evidence text."
     /\ PassesEdgeFilter(sheet_row', edge_type_filter)
     /\ sheet_row'.Correct # NaN
     /\ sheet_row'.Changed # NaN)
        => /\ Conflicts(log') = Conflicts(log) + 1
           /\ \A label \in Outcomes :
                Count(curation_results', label) = Count(curation_results, label)
           /\ Count(curation_results', "Total") = Count(curation_results, "Total") + 1

\* C9: a row marked both correct and changed, (checked, correct, changed) =
\* (T,T,T) in particular, is a conflict: a warning is logged, no outcome
\* bucket is incremented and Total is incremented.
C9_CorrectAndChangedIsConflict == [][C9_ClaimedStep]_vars

RECURSIVE SumOver(_, _)
SumOver(counts, labels) ==
    IF labels = {} THEN 0
    ELSE LET label == CHOOSE l \in labels : TRUE
         IN  Count(counts, label) + SumOver(counts, labels \ {label})

C10_Step ==
    /\ pc' \in {"report_rows", "report_returned"} =>
        /\ Count(curation_results', "Total") = line' - skipped'
        /\ SumOver(curation_results', Outcomes)
               = Count(curation_results', "Total") - Conflicts(log')
    /\ (RowStep /\ pc' = "report_rows") =>
        IF \/ sheet_row'.Evidence = "No evidence text."
           \/ ~PassesEdgeFilter(sheet_row', edge_type_filter)
        THEN curation_results' = curation_results /\ log' = log
        ELSE /\ Count(curation_results', "Total") = Count(curation_results, "Total") + 1
             /\ Cardinality({label \in Outcomes :
                    Count(curation_results', label) # Count(curation_results, label)}) <= 1
             /\ \A label \in Outcomes :
                    Count(curation_results', label) - Count(curation_results, label) \in {0, 1}

\* C10: after any sequence of sheet rows, Total is the number of rows that
\* were not skipped (by the placeholder-evidence guard or by the edge-type
\* filter), each such row incremented at most one of the five outcome buckets,
\* and the five buckets add up to Total minus the number of conflicts logged.
C10_TotalAccounting == [][C10_Step]_vars

C10_Witness ==
    /\ pc = "report_returned"
    /\ line = 3
    /\ skipped = 1
    /\ Conflicts(log) = 1
    /\ Count(curation_results, "Total") = 2
    /\ SumOver(curation_results, Outcomes) = 1

\* the evidence a row was made of, by the three fields the row carries of it
EvidenceOf(r) == [pmid |-> r.pmid, text |-> r.evidence, source_api |-> r.api]

C20_RowPassedAll(r, only) ==
    /\ r.bel_relation[1] \notin {"hasVariant", "partOf", "isA"}
    /\ \A part \in {r.bel_subject, r.bel_relation, r.bel_object} :
            \A k \in 1..Len(part) : part[k] \notin {"CHEBI", "PUBCHEM"}
    /\ r.pmid # None
    /\ ~Rejected(EvidenceOf(r))
    /\ r.evidence_hash = SourceHash(EvidenceOf(r))
    /\ only.kind # "none" => r.pmid \in only.pmids

\* C20: every row the projector emits comes from an edge and an evidence that
\* passed all filters: the edge is not of an unqualified kind, none of its
\* subject, relation and object contains 'CHEBI' or 'PUBCHEM', the edge has a
\* citation, the evidence passes the evidence filter and, when
\* keep_only_pmids is given, the document id of the row is in that set.
C20_RowsPassedAllFilters ==
    pc \in {"projected", "sorted", "limited", "done"}
        => /\ \A i \in 1..Len(projected) :
                C20_RowPassedAll(projected[i], args.keep_only_pmids)
           /\ \A i \in 1..Len(rows) :
                C20_RowPassedAll(rows[i], args.keep_only_pmids)

C20_Witness ==
    /\ pc = "projected"
    /\ args.keep_only_pmids.kind = "set"
    /\ args.allow_ungrounded
    /\ \E i \in 1..Len(statements) :
            /\ statements[i].mk = "k2"
            /\ Len(RowsOf(projected, statements[i].uuid)) = 1
    /\ \E i \in 1..Len(statements) :
            /\ statements[i].mk = "k1"
            /\ Len(RowsOf(projected, statements[i].uuid)) = 2

\* a turn of the loop of generate_curation_summary over the sheet path'
PathStep == pc = "summary_paths" /\ n_paths' = n_paths + 1

\* the export that follows the loop
ExportStep == pc = "summary_paths" /\ n_paths' = n_paths /\ pc' # pc

ErrorLabels == {<<"a">>, <<"b">>}

Pieces(r) == IF r.ErrorType = {} THEN <<>> ELSE split(Text(r.ErrorType))

\* the number of comma-separated pieces of the 'Error Type' cells of the rows
\* rs that are the label once lower-cased and trimmed
TokenCount(rs, label) ==
    Cardinality({kp \in UNION {{<<k, p>> : p \in 1..Len(Pieces(rs[k]))} : k \in 1..Len(rs)} :
                    strip(lower(Pieces(rs[kp[1]])[kp[2]])) = label})

\* the counter of the label in the line of the unit, 0 where the table has none
ErrorCount(table, u, label) == IF u \in DOMAIN table THEN Count(table[u], label) ELSE 0

NotPlaceholder(r) == r.Evidence # "No evidence text."

WellFormed(p) == p.read = "ok" /\ {"Curator", "Checked", "Correct", "Changed"} \subseteq p.columns

C11_Step ==
    (PathStep /\ pc' = "summary_paths" /\ WellFormed(path'))
        => LET u == path'.unit
               counted == SelectSeq(path'.rows, NotPlaceholder)
               passes(r) == PassesEdgeFilter(r, edge_type_filter)
           IN  /\ Count(summary_excel_rows'[u], "Total") = Len(SelectSeq(counted, passes))
               /\ DOMAIN summary_excel_rows'[u] # {}
                    => \A label \in ErrorLabels :
                         Count(error_excel_rows'[u], label) = TokenCount(counted, label)

\* C11: a sheet row whose Evidence cell is 'No evidence text.' contributes to
\* no table of the summary: the outcome counters and Total of its sheet are
\* those of the other rows, and so are the error-type counters of its sheet,
\* also when its Error Type cell is filled.
C11_PlaceholderRowsCountNowhere == [][C11_Step]_vars

C12_Step ==
    (/\ ExportStep
     /\ n_paths > 0
     /\ \A k \in 1..Len(log) : log[k][1] # "Error opening")
        => /\ pc' = "summary_done"
           /\ \E table \in summary_csv' :
                /\ DOMAIN table = DOMAIN summary_excel_rows
                /\ \A u \in DOMAIN table :
                    /\ DOMAIN table[u] = Outcomes \cup {"Total"}
                    /\ \A label \in DOMAIN table[u] :
                         table[u][label] = Count(summary_excel_rows[u], label)

\* C12: when every sheet was readable and well-formed, generate_curation_summary
\* completes and the outcome table has, for every unit, a count for each of
\* the five outcomes and Total, zero for an outcome no row produced (the sheet
\* of five rows not curated, error, correct, correct, modified gives 1, 1, 2,
\* 1, 0 and Total 5).
C12_SummaryCompleteWithZeros == [][C12_Step]_vars

C17_Step ==
    (PathStep /\ ~WellFormed(path'))
        => /\ pc' = "summary_paths"
           /\ \A u \in DOMAIN summary_excel_rows \ {path'.unit} :
                /\ u \in DOMAIN summary_excel_rows'
                /\ summary_excel_rows'[u] = summary_excel_rows[u]
           /\ \A u \in DOMAIN error_excel_rows \ {path'.unit} :
                /\ u \in DOMAIN error_excel_rows'
                /\ error_excel_rows'[u] = error_excel_rows[u]

\* C17: a sheet that cannot be read, or that lacks one of the columns Curator,
\* Checked, Correct, Changed, takes only its own contribution out of the
\* summary: the loop goes on to the next sheet and the counts of the other
\* sheets stay in both tables.
C17_SheetFailureIsLocal == [][C17_Step]_vars

C18_Step ==
    (PathStep /\ WellFormed(path') /\ pc' = "summary_paths")
        => \A label \in ErrorLabels :
                ErrorCount(error_excel_rows', path'.unit, label) = TokenCount(path'.rows, label)

\* C18: the error types of a sheet are counted independently of the outcome
\* classification: whenever the sheet was readable, the error-type counters
\* recorded for it hold, for each label, the number of comma-separated pieces
\* of the Error Type cells of all its rows that are the label once lower-cased
\* and trimmed, whatever the outcome of the rows.
C18_ErrorTypesOfEveryReadableSheet == [][C18_Step]_vars

\* a turn of the loop of get_graph over the rows: process_row on df_row'
RowTurn == pc = "graph_rows" /\ n_lines' = n_lines + 1

\* process_row called parseString
Parsed == last_call' # last_call

\* the cell is empty (NaN) or false
EmptyCell(cell) == cell \in {NaN, PyFalse, ""}

C13_Step ==
    (/\ RowTurn
     /\ \/ EmptyCell(df_row'.Checked)
        \/ EmptyCell(df_row'.Correct) /\ EmptyCell(df_row'.Changed))
        => /\ ~Parsed
           /\ sheets_graph' = sheets_graph
           /\ bel_parser' = bel_parser

\* C13: a row whose Checked cell is empty, or whose Correct and Changed cells
\* are both empty, is not ingested by process_row: parseString is not called,
\* the graph gets no edge and no warning, and the citation, evidence and
\* annotations of the parser stay as they were.
C13_UncuratedRowNotIngested == [][C13_Step]_vars

\* the cell the citation reference is read from
ReferenceCell(columns, r) ==
    IF "Citation Reference" \in columns THEN r.CitationReference
    ELSE IF "PMID" \in columns THEN r.PMID
    ELSE NaN

C14_Step ==
    (/\ RowTurn
     /\ ~EmptyCell(df_row'.Checked)
     /\ ~EmptyCell(df_row'.Correct) \/ ~EmptyCell(df_row'.Changed))
        => IF EmptyCell(ReferenceCell(df.columns, df_row'))
           THEN /\ pc' = "graph_raised"
                /\ ~Parsed
                /\ bel_parser'.citation = bel_parser.citation
           ELSE \A c \in bel_parser'.citation :
                    c.reference = ReferenceCell(df.columns, df_row')

\* C14: for a checked row marked correct or changed, the citation reference is
\* the cell of 'Citation Reference' if the sheet has that column, else the
\* cell of 'PMID'; when that gives no value, an empty cell included,
\* process_row raises, calls parseString not at all and leaves the citation of
\* the parser as it was.
C14_MissingReferenceIsFatal == [][C14_Step]_vars

C15_Step ==
    (/\ RowTurn
     /\ Parsed
     /\ parseString(df_row'.Subject, df_row'.Predicate, df_row'.Object)
            \in {"BELParserWarning", "ParseException"})
        => /\ pc' = "graph_rows"
           /\ sheets_graph.path = n_sheets
           /\ line_number' = line_number + 1
           /\ sheets_graph'.path = sheets_graph.path
           /\ sheets_graph'.edges = sheets_graph.edges
           /\ Len(sheets_graph'.warnings) = Len(sheets_graph.warnings) + 1
           /\ SubSeq(sheets_graph'.warnings, 1, Len(sheets_graph.warnings))
                    = sheets_graph.warnings
           /\ LET w == sheets_graph'.warnings[Len(sheets_graph'.warnings)]
              IN  w[1] = n_sheets /\ w[2] = line_number'

\* C15: when parseString raises a grammar or a semantic warning for a row,
\* process_row does not raise: exactly one warning, with the line number of
\* the row and the path of the sheet being read, is added to the warnings of
\* the graph, no edge is, and the loop goes on with the next row.
C15_WarningIsRecoverable == [][C15_Step]_vars

C15_Witness ==
    /\ pc = "graph_returned"
    /\ n_read = 2
    /\ sheets_graph.warnings = << <<1, 0, "ParseException">> >>
    /\ \E k \in 1..Len(sheets_graph.edges) :
            sheets_graph.edges[k][1] = 1 /\ sheets_graph.edges[k][2] = 1
    /\ \E k \in 1..Len(sheets_graph.edges) : sheets_graph.edges[k][1] = 2

C16_Step ==
    (RowTurn /\ Parsed)
        => \A c \in last_call' :
            LET a == c.context.annotations
                has(column) == column \in df.columns
                value(column) == <<column, n_sheets, line_number'>>
            IN  /\ "Curator" \in DOMAIN a /\ a["Curator"] = value("Curator")
                /\ "Confidence" \in DOMAIN a /\ a["Confidence"] = <<"Medium">>
                /\ "INDRA_UUID" \in DOMAIN a <=> has("INDRA UUID")
                /\ "INDRA_Belief" \in DOMAIN a <=> has("Belief")
                /\ "INDRA_API" \in DOMAIN a <=> has("API")
                /\ has("INDRA UUID") => a["INDRA_UUID"] = value("INDRA UUID")
                /\ has("Belief") => a["INDRA_Belief"] = value("Belief")
                /\ has("API") => a["INDRA_API"] = value("API")

\* C16: at every parseString call the annotations of the parser are Curator of
\* the current row, Confidence 'Medium', and INDRA_UUID, INDRA_Belief and
\* INDRA_API exactly when the current row has the columns 'INDRA UUID',
\* 'Belief' and 'API', with the values of the current row: nothing an earlier
\* row or an earlier sheet set is left.
C16_AnnotationsOfCurrentRowOnly == [][C16_Step]_vars

\* get_graph is entered
EntryStep == n_calls' = n_calls + 1

\* get_graph has iterated all the paths
FinishStep == pc = "graph_paths" /\ pc' = "graph_returned"

Unpickled(files) == {f.pickled : f \in files}

C19_Step ==
    /\ EntryStep =>
        IF use_cached' /\ cache_pickle # {}
        THEN /\ pc' = "graph_returned"
             /\ returned' = Unpickled(cache_pickle)
             /\ n_read' = 0
        ELSE /\ pc' = "graph_paths"
             /\ returned' = {}
             /\ sheets_graph'.edges = <<>>
             /\ sheets_graph'.warnings = <<>>
    /\ n_read' > n_read => ~(use_cached /\ cache_pickle # {})
    /\ FinishStep =>
        /\ Unpickled(cache_pickle') = {sheets_graph}
        /\ cache_json' = {[nodelink |-> sheets_graph]}
        /\ returned' = {sheets_graph}
    /\ (cache_pickle' # cache_pickle \/ cache_json' # cache_json) => FinishStep
    /\ pc' = "graph_returned" => returned' = Unpickled(cache_pickle')

\* C19: get_graph returns the pickled graph, reading no sheet, if and only if
\* use_cached is true and the pickle exists; in every other case it builds
\* a new graph from the sheets and, having iterated them all, writes the
\* pickle and the JSON export of that graph; nothing else writes them, so a
\* later cached call returns the graph of the last rebuild that completed,
\* whatever the sheets hold by then.
C19_CacheKeyedByPickle == [][C19_Step]_vars

C19_Witness ==
    /\ n_calls = 2
    /\ pc = "graph_returned"
    /\ use_cached
    /\ n_read = 0
    /\ returned = {sheets_graph}
    /\ Len(sheets_graph.edges) = 2
    /\ sheets_graph # OldGraph

-----------------------------------------------------------------------------
(* The order of the stages of print_statements *)

\* the stages in the order of the statements of print_statements
Stages == <<"start", "preassembled", "grounded", "filtered", "projected", "sorted",
            "limited", "done">>

Stage(p) == CHOOSE k \in 1..Len(Stages) : Stages[k] = p

\* preassembly has run over the list: no two statements of the same content
Preassembled(stmts) ==
    \A i, j \in 1..Len(stmts) : i # j => stmts[i].mk # stmts[j].mk

C21_State ==
    /\ Stage(pc) >= Stage("preassembled") => Preassembled(statements)
    /\ (Stage(pc) >= Stage("grounded") /\ ~args.allow_ungrounded)
            => \A i \in 1..Len(statements) : Content(statements[i].mk).grounded
    /\ (Stage(pc) >= Stage("filtered") /\ args.minimum_belief # {})
            => \A i \in 1..Len(statements) : \A b \in args.minimum_belief :
                    statements[i].belief >= b
    /\ Stage(pc) < Stage("projected") => projected = <<>>
    /\ Stage(pc) < Stage("sorted") => rows = <<>>
    /\ \A k \in 1..Len(projected) : projected[k].uuid \in Uuids(statements)
    /\ \A k \in 1..Len(rows) : \E n \in 1..Len(projected) : rows[k] = projected[n]

C21_Step ==
    /\ Stage(pc') = Stage(pc) + 1
    /\ (pc = "preassembled" /\ args'.allow_ungrounded) => statements' = statements
    /\ (pc = "grounded" /\ args'.minimum_belief = {}) => statements' = statements
    /\ C21_State'

\* C21: print_statements runs its stages in one order on every call:
\* preassembly of the whole statement list, then the grounding filter (which
\* drops statements only when allow_ungrounded is false), then the belief
\* filter (which drops statements only when minimum_belief is set), then the
\* projection to rows, then the sort, then the limit.  No row exists before
\* the projection, and every row is of a statement that preassembly kept and
\* that no filter dropped.
C21_StagesInOrder == [][C21_Step]_vars

C21_Witness ==
    /\ pc = "done"
    /\ ~args.allow_ungrounded
    /\ args.minimum_belief = {500}
    /\ args.limit = {1}
    /\ Len(projected) > 1
    /\ Len(rows) = 1
    /\ Len(file) = 2

-----------------------------------------------------------------------------
(* The sheets of one unit in generate_curation_summary *)

\* the counter of the label in the line of the unit, 0 where the table has none
OutcomeCount(table, u, label) == IF u \in DOMAIN table THEN Count(table[u], label) ELSE 0

\* the counters generate_curation_report returns for the sheet at the path
ReportOf(p) == generate_curation_report(p, edge_type_filter).results

C22_Step ==
    (PathStep /\ pc' = "summary_paths" /\ WellFormed(path') /\ Count(ReportOf(path'), "Total") > 0)
        => \A label \in Outcomes \cup {"Total"} :
                OutcomeCount(summary_excel_rows', path'.unit, label)
                    = OutcomeCount(summary_excel_rows, path'.unit, label)
                        + Count(ReportOf(path'), label)

\* C22: every sheet found contributes to the outcome table: the outcome
\* counts and Total of a unit (the parent folder of the path) are the sums over
\* all the sheets found under the folder of the unit, so that a further sheet
\* of a unit adds its counts to those the unit has and replaces none.
C22_EverySheetOfUnitCounted == [][C22_Step]_vars

-----------------------------------------------------------------------------
(* The files export_separate leaves *)

\* no call of export_separate is running
BetweenExports == pc \in {"export_idle", "export_raised"}

\* C23: a gene counts as downloaded only once its retrieval and its write
\* have completed: whenever no export is running, every gene whose
\* '<gene>.bel.tsv' file exists has its '<gene>_statements.pkl' file too, so
\* that a call that raised has left no sheet file that makes a later call
\* skip the gene.
C23_SheetFileOnlyOfRetrievedGene ==
    BetweenExports
        => \A g \in GENES : exists(tsv_path(g)) => exists(pickle_path(g))

====
